---- MODULE Spec2Model ----
(***************************************************************************)
(* Model of the backtesting engine of SHPECapitalTeam-CashFlow:            *)
(*   src/src/backtester.py  backtest_strategy                              *)
(*   src/src/portfolio.py   calculate_portfolio_summary                    *)
(*   src/src/signals.py     calculate_position_size,                       *)
(*                          generate_current_signal                        *)
(*   src/src/indicators.py  calculate_sma                                  *)
(*   src/src/config.py      the configuration constants                    *)
(*                                                                         *)
(* Specifications.  Spec runs backtest_strategy on one frame and hands the *)
(* result to main's summary.  SpecSummary, SpecSignal and SpecSMA call     *)
(* calculate_portfolio_summary, the two functions of signals.py and        *)
(* calculate_sma on their own, on inputs drawn from bounded sets.          *)
(*                                                                         *)
(* Numbers.  Python floats are modelled by exact integers:                 *)
(*   - a price (Close, Low, SMA, entry_price, stop_loss_price, exit_price, *)
(*     profit) is an integer number of 1/10000 dollar ("units");           *)
(*   - a value the code has passed through round(x, 2) is an integer       *)
(*     number of hundredths (cents for money, 0.01 % for percentages).     *)
(* The closes of the model are multiples of 20 units, so that              *)
(* entry_price * (1 - STOP_LOSS_PCT) is a whole number of units.  The      *)
(* last-bit error of binary floating point is not modelled.                *)
(*                                                                         *)
(* Data.  The DataFrame handed to backtest_strategy is the one             *)
(* calculate_sma(df) produced with the default period SMA_PERIOD: its SMA  *)
(* column is NaN on the rows 0 .. SMA_PERIOD - 2.  On the later rows the   *)
(* SMA is an input of the model: for a frame of fewer than 2 * SMA_PERIOD  *)
(* rows the closes that leave the rolling window are closes of warm-up     *)
(* rows the loop never looks at, so every SMA sequence drawn here is the   *)
(* rolling mean of some close column.  INTERVAL is '1d': row i carries the *)
(* i-th trading day, and strftime('%Y-%m-%d') of it is that day.           *)
(***************************************************************************)
EXTENDS Integers, Sequences, FiniteSets, TLC

VARIABLES
    pc,               \* position in backtest_strategy / its caller
    use_stop_loss,    \* config.USE_STOP_LOSS, fixed for the run
    n,                \* len(df)
    i,                \* loop index of `for i in range(1, len(df))`
    last_row,         \* the most recent row of df that has been read:
                      \* `current` of the last iteration, `previous` of the next
    crossed_above,    \* locals of the last iteration that computed them
    crossed_below,
    in_position,
    entry_price,
    entry_date,
    stop_loss_price,
    exit_reason,      \* local of the last iteration that ran the exit logic
    exit_price,       \* local: the unrounded exit price of the last closed trade
    profit,           \* local: the unrounded profit of the last closed trade
    trades,
    stop_loss_exits,
    signal_exits,
    result,           \* the value backtest_strategy returned
    backtest_results, \* main's list of per-ticker results
    summary,          \* the value calculate_portfolio_summary returned
    closes,           \* calculate_sma: the Close column of its df
    period,           \* calculate_sma: its period argument
    sma_column,       \* calculate_sma: the SMA column it wrote
    df,               \* generate_current_signal: the rows of its df
    signal,           \* the value generate_current_signal returned
    size_price,       \* calculate_position_size: its price argument
    size_strength,    \* calculate_position_size: its signal_strength argument
    position,         \* the value calculate_position_size returned
    df_kind,          \* what kind of frame the data loader supplied
    tickers,          \* main: len(tickers)
    signals,          \* main's list of per-ticker signals
    report,           \* the value generate_report returned
    merp_position,    \* merp.py backtest_strategy: its local `position`
    merp_trades,      \* merp.py backtest_strategy: its local `trades`
    merp_stop_loss_exits,
    merp_signal_exits

vars == <<pc, use_stop_loss, n, i, last_row, crossed_above, crossed_below,
          in_position,
          entry_price, entry_date, stop_loss_price, exit_reason, exit_price,
          profit, trades, stop_loss_exits, signal_exits, result,
          backtest_results, summary,
          closes, period, sma_column, df, signal, size_price, size_strength,
          position, df_kind, tickers, signals, report,
          merp_position, merp_trades, merp_stop_loss_exits, merp_signal_exits>>

indicator_vars == <<closes, period, sma_column>>
signal_vars == <<df, signal, size_price, size_strength, position>>
main_vars == <<tickers, signals, report>>
merp_vars == <<merp_position, merp_trades, merp_stop_loss_exits,
               merp_signal_exits>>

-----------------------------------------------------------------------------
(* Bounds of the model *)

MaxBars == 24        \* the longest frame: rows 0 .. MaxBars - 1
MaxOthers == 1       \* results of other tickers in main's list

(* Program constants *)

SMA_PERIOD == 20     \* config.py
STOP_LOSS_PCT == 5   \* config.py: 0.05, here in percent
MIN_ROWS == 21       \* backtester.py: `len(df) < 21`

None == [none |-> TRUE]
NoRow == [Close |-> 0, Low |-> 0, SMA |-> <<>>, Datetime |-> 0]

(* The inputs: closes, lows and SMA values of the rows, in units.          *)
Closes == {100100, 100140, 110000}
LowTouch == {90000}
SmaVals == {100000, 100140, 120000}

-----------------------------------------------------------------------------
(* Arithmetic helpers *)

Abs(x) == IF x < 0 THEN -x ELSE x

\* round(num / den) to the nearest integer, ties to even, den > 0:
\* Python's round(x, 2) for x = num / (100 * den).
RoundDiv(num, den) ==
    LET q == num \div den
        r == num % den
    IN  IF 2 * r < den THEN q
        ELSE IF 2 * r > den THEN q + 1
        ELSE IF q % 2 = 0 THEN q ELSE q + 1

\* round(x, 2) of a price or profit in units: the result in cents.
Round2(x) == RoundDiv(x, 100)

RECURSIVE SumBy(_, _)
SumBy(s, field) ==
    IF s = <<>> THEN 0 ELSE s[1][field] + SumBy(Tail(s), field)

-----------------------------------------------------------------------------
(* The rows of the frame *)

isna(x) == x = <<>>

\* calculate_sma: df['Close'].rolling(window=period).mean() is NaN on the
\* first period - 1 rows.
SmaAt(idx) == IF idx < SMA_PERIOD - 1 THEN {<<>>} ELSE {<<s>> : s \in SmaVals}

\* The frames fetch_stock_data can hand over (data_loader.py lines 47-53
\* return what yfinance gave, unchecked): "validated" is the frame the data
\* loader is meant to supply, "descending" has its timestamps in descending
\* order, "nonpositive_low" has intraday lows of 0.
FrameKinds == {"validated", "descending", "nonpositive_low"}

\* the timestamp of row idx
DatetimeAt(idx) == IF df_kind = "descending" THEN MaxBars - idx ELSE idx

\* the intraday lows below the close
LowTouchAt == IF df_kind = "nonpositive_low" THEN {0} ELSE LowTouch

\* A row: Low is the close itself or a lower intraday price.
RowsAt(idx) ==
    UNION {{[Close |-> c, Low |-> l, SMA |-> s, Datetime |-> DatetimeAt(idx)] :
               l \in {c} \cup {x \in LowTouchAt : x <= c}, s \in SmaAt(idx)} :
           c \in Closes}

-----------------------------------------------------------------------------
(* backtest_strategy: the conditions of one loop iteration *)

\* A comparison of a price with an SMA value: a comparison with NaN is False.
Le(x, sma) == ~isna(sma) /\ x <= sma[1]
Ge(x, sma) == ~isna(sma) /\ x >= sma[1]
Lt(x, sma) == ~isna(sma) /\ x < sma[1]
Gt(x, sma) == ~isna(sma) /\ x > sma[1]

\* line 56: the bar is skipped
SmaUndefined(prev, cur) == isna(cur.SMA) \/ isna(prev.SMA)

\* Mutant of CrossedAbove: the previous close must be strictly below its SMA.
CrossedAbove_Strict(prev, cur) == Lt(prev.Close, prev.SMA) /\ Gt(cur.Close, cur.SMA)

\* line 60
CrossedAbove(prev, cur) == Le(prev.Close, prev.SMA) /\ Gt(cur.Close, cur.SMA)

\* line 63
CrossedBelow(prev, cur) == Ge(prev.Close, prev.SMA) /\ Lt(cur.Close, cur.SMA)

\* line 70
StopLossPrice(price, enabled) ==
    IF enabled THEN (price * (100 - STOP_LOSS_PCT)) \div 100 ELSE 0

\* line 79
\* Mutant of StopLossHit: the stop-loss test never fires.
StopLossHit_Never(enabled, low, stop) == FALSE

\* Mutant of StopLossHit: the low is compared with the stop whatever the flag.
StopLossHit_IgnoresFlag(enabled, low, stop) == low <= stop

StopLossHit(enabled, low, stop) == enabled /\ low <= stop

\* Mutant of ExitDecision: the signal exit is tested before the stop-loss.
ExitDecision_SignalFirst(enabled, stop, prev, cur) ==
    IF CrossedBelow(prev, cur) THEN "signal"
    ELSE IF StopLossHit(enabled, cur.Low, stop) THEN "stop_loss"
    ELSE ""

\* lines 74-91: the exit decision of a bar while in a position; "" is
\* exit_triggered = False.
ExitDecision(enabled, stop, prev, cur) ==
    IF StopLossHit(enabled, cur.Low, stop) THEN "stop_loss"
    ELSE IF CrossedBelow(prev, cur) THEN "signal"
    ELSE ""

\* Mutant of ExitPrice: a stop-loss exit is filled at the bar's low.
ExitPrice_AtLow(reason, stop, cur) == IF reason = "stop_loss" THEN cur.Low ELSE cur.Close

\* lines 84 / 91: the price the trade is closed at
ExitPrice(reason, stop, cur) == IF reason = "stop_loss" THEN stop ELSE cur.Close

\* Mutant of EntryBranch: the entry does not test `not in_position`.
EntryBranch_Pyramiding(inpos, prev, cur) == CrossedAbove(prev, cur)

\* line 66
EntryBranch(inpos, prev, cur) == ~inpos /\ CrossedAbove(prev, cur)

\* Mutant of BarBranch: only the current SMA is tested for NaN, and a bar
\* without a previous SMA counts as coming from below.
BarBranch_PreviousIgnored(inpos, prev, cur) ==
    IF isna(cur.SMA) THEN "continue"
    ELSE IF ~inpos /\ (isna(prev.SMA) \/ Le(prev.Close, prev.SMA))
                   /\ Gt(cur.Close, cur.SMA) THEN "entry"
    ELSE IF inpos THEN "exit"
    ELSE "pass"

\* lines 56-73: what one iteration does with its bar
BarBranch(inpos, prev, cur) ==
    IF SmaUndefined(prev, cur) THEN "continue"
    ELSE IF EntryBranch(inpos, prev, cur) THEN "entry"
    ELSE IF inpos THEN "exit"
    ELSE "pass"

\* lines 94-105 and 113-124: the ledger entry of a closed trade
MakeTrade(edate, eprice, xdate, xprice, reason) ==
    [entry_date  |-> edate,
     entry_price |-> Round2(eprice),
     exit_date   |-> xdate,
     exit_price  |-> Round2(xprice),
     profit      |-> Round2(xprice - eprice),
     profit_pct  |-> RoundDiv((xprice - eprice) * 10000, eprice),
     exit_reason |-> reason]

\* Mutant of ClosingTrade: the closing trade is recorded as a signal exit.
ClosingTrade_AsSignal(edate, eprice, last) ==
    MakeTrade(edate, eprice, last.Datetime, last.Close, "signal")

\* lines 110-124: the trade that closes the position left open by the loop
ClosingTrade(edate, eprice, last) ==
    MakeTrade(edate, eprice, last.Datetime, last.Close, "END-OF-DATA")

\* Mutant of GrossLoss: the loss is reported as a magnitude.
GrossLoss_Magnitude(losing) == Abs(SumBy(losing, "profit"))

\* line 148
GrossLoss(losing) == SumBy(losing, "profit")

\* Mutant of NoTradesResult: a run without trades gives no result.
NoTradesResult_None(ticker) == None

\* lines 127-142: the result of a run that closed no trade
NoTradesResult(ticker) ==
    [ticker |-> ticker, total_trades |-> 0, winning_trades |-> 0,
     losing_trades |-> 0, win_rate |-> 0, gross_profit |-> 0,
     gross_loss |-> 0, total_profit |-> 0, avg_profit |-> 0,
     avg_profit_pct |-> 0, stop_loss_exits |-> 0, signal_exits |-> 0,
     trades |-> <<>>]

\* lines 126-168
Statistics(ticker, ledger, sl_exits, sig_exits) ==
    IF ledger = <<>> THEN NoTradesResult(ticker)
    ELSE
        LET winning == SelectSeq(ledger, LAMBDA t : t.profit > 0)
            losing == SelectSeq(ledger, LAMBDA t : t.profit <= 0)
            gross_profit == SumBy(winning, "profit")
            gross_loss == GrossLoss(losing)
            total_profit == gross_profit + gross_loss
        IN  [ticker |-> ticker,
             total_trades |-> Len(ledger),
             winning_trades |-> Len(winning),
             losing_trades |-> Len(losing),
             win_rate |-> RoundDiv(Len(winning) * 10000, Len(ledger)),
             gross_profit |-> gross_profit,
             gross_loss |-> gross_loss,
             total_profit |-> total_profit,
             avg_profit |-> RoundDiv(total_profit, Len(ledger)),
             avg_profit_pct |-> RoundDiv(SumBy(ledger, "profit_pct"), Len(ledger)),
             stop_loss_exits |-> sl_exits,
             signal_exits |-> sig_exits,
             trades |-> ledger]

-----------------------------------------------------------------------------
(* merp.py: backtest_strategy of the original single-file program, run on  *)
(* the same frame with the same SMA_PERIOD, STOP_LOSS_PCT and              *)
(* USE_STOP_LOSS. Its ledger holds the prices as they are, not rounded.    *)

\* merp.py line 250: `len(df) < SMA_PERIOD + 1`
MerpRejects(rows) == rows < SMA_PERIOD + 1

\* merp.py line 288
MerpStopLossPrice(eprice) == (eprice * (100 - STOP_LOSS_PCT)) \div 100

\* merp.py lines 292-295 and 316-318: the exit taken on a bar while holding
\* `pos`; "" when neither condition holds
MerpExitReason(enabled, pos, prev, cur) ==
    IF enabled /\ cur.Low <= MerpStopLossPrice(pos.entry_price) THEN "STOP-LOSS"
    ELSE IF Ge(prev.Close, prev.SMA) /\ Lt(cur.Close, cur.SMA) THEN "SMA-CROSS"
    ELSE ""

\* merp.py lines 294 / 317: the price of that exit
MerpExitPrice(reason, pos, cur) ==
    IF reason = "STOP-LOSS" THEN MerpStopLossPrice(pos.entry_price) ELSE cur.Close

\* merp.py lines 301-310, 324-333, 357-366: a ledger entry; profit_loss_pct
\* is kept as the fraction <<numerator, denominator>>
MerpTrade(pos, xdate, xprice, reason) ==
    [entry_date      |-> pos.entry_date,
     entry_price     |-> pos.entry_price,
     exit_date       |-> xdate,
     exit_price      |-> xprice,
     profit_loss     |-> xprice - pos.entry_price,
     profit_loss_pct |-> <<(xprice - pos.entry_price) * 100, pos.entry_price>>,
     duration        |-> xdate - pos.entry_date,
     exit_reason     |-> reason]

\* merp.py line 343
MerpEntry(prev, cur) == Le(prev.Close, prev.SMA) /\ Gt(cur.Close, cur.SMA)

\* merp.py lines 344-348
MerpNewPosition(cur) ==
    [entry_date |-> cur.Datetime, entry_price |-> cur.Close, entry_sma |-> cur.SMA]

\* Mutant of MerpBar: the exit branches do not `continue`, so the bar that
\* closed the trade is tested for an entry as well.
MerpBar_NoContinue(enabled, pos, prev, cur) ==
    IF SmaUndefined(prev, cur) THEN [position |-> pos, closed |-> <<>>]
    ELSE IF pos # None /\ MerpExitReason(enabled, pos, prev, cur) # ""
    THEN LET reason == MerpExitReason(enabled, pos, prev, cur)
         IN  [position |-> IF MerpEntry(prev, cur) THEN MerpNewPosition(cur)
                           ELSE None,
              closed   |-> <<MerpTrade(pos, cur.Datetime,
                                       MerpExitPrice(reason, pos, cur), reason)>>]
    ELSE IF pos = None /\ MerpEntry(prev, cur)
    THEN [position |-> MerpNewPosition(cur), closed |-> <<>>]
    ELSE [position |-> pos, closed |-> <<>>]

\* merp.py lines 268-348: one iteration of the loop; the position after
\* the bar and the trade it closed, if any
MerpBar(enabled, pos, prev, cur) ==
    IF SmaUndefined(prev, cur) THEN [position |-> pos, closed |-> <<>>]
    ELSE IF pos # None /\ MerpExitReason(enabled, pos, prev, cur) # ""
    THEN LET reason == MerpExitReason(enabled, pos, prev, cur)
         IN  [position |-> None,
              closed   |-> <<MerpTrade(pos, cur.Datetime,
                                       MerpExitPrice(reason, pos, cur), reason)>>]
    ELSE IF pos = None /\ MerpEntry(prev, cur)
    THEN [position |-> MerpNewPosition(cur), closed |-> <<>>]
    ELSE [position |-> pos, closed |-> <<>>]

\* the same iteration applied to merp.py's locals
MerpIteration(prev, cur) ==
    LET m == MerpBar(use_stop_loss, merp_position, prev, cur)
        Closed(reason) ==
            IF m.closed # <<>> /\ m.closed[1].exit_reason = reason THEN 1 ELSE 0
    IN  /\ merp_position' = m.position
        /\ merp_trades' = merp_trades \o m.closed
        /\ merp_stop_loss_exits' = merp_stop_loss_exits + Closed("STOP-LOSS")
        /\ merp_signal_exits' = merp_signal_exits + Closed("SMA-CROSS")

\* merp.py lines 351-367: the position left open is closed at the last close
MerpEndOfData(last) ==
    /\ merp_trades' =
           IF merp_position # None
           THEN Append(merp_trades,
                       MerpTrade(merp_position, last.Datetime, last.Close,
                                 "END-OF-DATA"))
           ELSE merp_trades
    /\ UNCHANGED <<merp_position, merp_stop_loss_exits, merp_signal_exits>>

-----------------------------------------------------------------------------
(* backtest_strategy: the state machine *)

\* calculate_sma(df, period) with another period is not being called
IndicatorIdle ==
    /\ closes = <<>>
    /\ period = 0
    /\ sma_column = <<>>

\* generate_current_signal / calculate_position_size are not being called
SignalIdle ==
    /\ df = <<>>
    /\ signal = None
    /\ size_price = 0
    /\ size_strength = None
    /\ position = None

\* main's batch loop and generate_report are not being run
MainIdle ==
    /\ tickers = 0
    /\ signals = <<>>
    /\ report = None

\* merp.py's backtest_strategy is not being called
MerpIdle ==
    /\ merp_position = None
    /\ merp_trades = <<>>
    /\ merp_stop_loss_exits = 0
    /\ merp_signal_exits = 0

Init ==
    /\ pc = "start"
    /\ use_stop_loss \in BOOLEAN
    /\ n \in (MIN_ROWS - 1) .. MaxBars
    /\ i = 0
    /\ last_row = NoRow
    /\ crossed_above = FALSE
    /\ crossed_below = FALSE
    /\ in_position = FALSE
    /\ entry_price = 0
    /\ entry_date = 0
    /\ stop_loss_price = 0
    /\ exit_reason = ""
    /\ exit_price = 0
    /\ profit = 0
    /\ trades = <<>>
    /\ stop_loss_exits = 0
    /\ signal_exits = 0
    /\ result = None
    /\ backtest_results = <<>>
    /\ summary = None
    /\ IndicatorIdle
    /\ SignalIdle
    /\ MainIdle
    /\ MerpIdle
    /\ df_kind = "validated"

\* lines 24-25: a frame of fewer than 21 rows gives no result
Reject ==
    /\ pc = "start"
    /\ n < MIN_ROWS
    /\ pc' = "done"
    /\ result' = None
    /\ n' = 0
    /\ UNCHANGED <<use_stop_loss, i, last_row, crossed_above, crossed_below,
                   in_position, entry_price, entry_date, stop_loss_price,
                   exit_reason, exit_price, profit, trades, stop_loss_exits,
                   signal_exits, backtest_results, summary,
                   indicator_vars, signal_vars,
                   main_vars, merp_vars, df_kind>>

\* lines 28-44: the locals are set and the loop starts at i = 1; row 0 is
\* the `previous` of the first iteration
Start ==
    /\ pc = "start"
    /\ ~(n < MIN_ROWS)
    /\ pc' = "loop"
    /\ i' = 1
    /\ \E row \in RowsAt(0) : last_row' = row
    /\ UNCHANGED <<use_stop_loss, n, crossed_above, crossed_below, in_position,
                   entry_price, entry_date, stop_loss_price, exit_reason,
                   exit_price, profit, trades, stop_loss_exits, signal_exits,
                   result, backtest_results, summary,
                   indicator_vars, signal_vars,
                   main_vars, merp_vars, df_kind>>

\* lines 45-53 and the loop increment, common to every iteration
ReadRow(row) ==
    /\ pc = "loop"
    /\ i < n
    /\ row \in RowsAt(i)
    /\ last_row' = row
    /\ i' = i + 1
    /\ MerpIteration(last_row, row)
    /\ UNCHANGED <<pc, use_stop_loss, n, result, backtest_results, summary,
                   indicator_vars, signal_vars,
                   main_vars, df_kind>>

\* lines 60-63
Crossovers(prev, cur) ==
    /\ crossed_above' = CrossedAbove(prev, cur)
    /\ crossed_below' = CrossedBelow(prev, cur)

\* lines 56-57: `continue`
SkipBar ==
    \E row \in RowsAt(i) :
        /\ ReadRow(row)
        /\ BarBranch(in_position, last_row, row) = "continue"
        /\ UNCHANGED <<crossed_above, crossed_below, in_position, entry_price,
                       entry_date, stop_loss_price, exit_reason, exit_price,
                       profit, trades, stop_loss_exits, signal_exits>>

\* lines 66-70
Enter ==
    \E row \in RowsAt(i) :
        /\ ReadRow(row)
        /\ BarBranch(in_position, last_row, row) = "entry"
        /\ Crossovers(last_row, row)
        /\ in_position' = TRUE
        /\ entry_price' = row.Close
        /\ entry_date' = row.Datetime
        /\ stop_loss_price' = StopLossPrice(row.Close, use_stop_loss)
        /\ UNCHANGED <<exit_reason, exit_price, profit, trades,
                       stop_loss_exits, signal_exits>>

\* Mutant of CloseTrade: signal_exits counts every exit of the loop.
CloseTrade_CountsEveryExit(row, reason) ==
    LET xprice == ExitPrice(reason, stop_loss_price, row)
    IN  /\ exit_reason' = reason
        /\ exit_price' = xprice
        /\ profit' = xprice - entry_price
        /\ stop_loss_exits' =
               IF reason = "stop_loss" THEN stop_loss_exits + 1 ELSE stop_loss_exits
        /\ signal_exits' = signal_exits + 1
        /\ trades' = Append(trades, MakeTrade(entry_date, entry_price,
                                              row.Datetime, xprice, reason))

\* lines 80-84, 88-91 and 94-105: the exit locals, the counters and the
\* ledger entry of a trade closed on `row`
CloseTrade(row, reason) ==
    LET xprice == ExitPrice(reason, stop_loss_price, row)
    IN  /\ exit_reason' = reason
        /\ exit_price' = xprice
        /\ profit' = xprice - entry_price
        /\ stop_loss_exits' =
               IF reason = "stop_loss" THEN stop_loss_exits + 1 ELSE stop_loss_exits
        /\ signal_exits' =
               IF reason = "signal" THEN signal_exits + 1 ELSE signal_exits
        /\ trades' = Append(trades, MakeTrade(entry_date, entry_price,
                                              row.Datetime, xprice, reason))

\* Mutant of ExitBar: the bar that closed the trade is evaluated for entry
\* again (two separate `if`s, the exit first).
ExitBar_SameBarReversal ==
    \E row \in RowsAt(i) :
        /\ ReadRow(row)
        /\ BarBranch(in_position, last_row, row) = "exit"
        /\ Crossovers(last_row, row)
        /\ ExitDecision(use_stop_loss, stop_loss_price, last_row, row) # ""
        /\ CloseTrade(row, ExitDecision(use_stop_loss, stop_loss_price, last_row, row))
        /\ IF CrossedAbove(last_row, row)
           THEN /\ in_position' = TRUE
                /\ entry_price' = row.Close
                /\ entry_date' = row.Datetime
                /\ stop_loss_price' = StopLossPrice(row.Close, use_stop_loss)
           ELSE /\ in_position' = FALSE
                /\ UNCHANGED <<entry_price, entry_date, stop_loss_price>>

\* lines 73-107 with exit_triggered: the trade is closed on this bar
ExitBar ==
    \E row \in RowsAt(i) :
        /\ ReadRow(row)
        /\ BarBranch(in_position, last_row, row) = "exit"
        /\ Crossovers(last_row, row)
        /\ ExitDecision(use_stop_loss, stop_loss_price, last_row, row) # ""
        /\ CloseTrade(row, ExitDecision(use_stop_loss, stop_loss_price, last_row, row))
        /\ in_position' = FALSE
        /\ UNCHANGED <<entry_price, entry_date, stop_loss_price>>

\* lines 73-93 without exit_triggered: the position stays open
HoldBar ==
    \E row \in RowsAt(i) :
        /\ ReadRow(row)
        /\ BarBranch(in_position, last_row, row) = "exit"
        /\ Crossovers(last_row, row)
        /\ ExitDecision(use_stop_loss, stop_loss_price, last_row, row) = ""
        /\ exit_reason' = ""
        /\ UNCHANGED <<in_position, entry_price, entry_date, stop_loss_price,
                       exit_price, profit, trades, stop_loss_exits, signal_exits>>

\* neither branch of lines 66 / 73: flat and no upward crossover
FlatBar ==
    \E row \in RowsAt(i) :
        /\ ReadRow(row)
        /\ BarBranch(in_position, last_row, row) = "pass"
        /\ Crossovers(last_row, row)
        /\ UNCHANGED <<in_position, entry_price, entry_date, stop_loss_price,
                       exit_reason, exit_price, profit, trades,
                       stop_loss_exits, signal_exits>>

\* lines 109-124: after the last bar an open position is closed at the last
\* close; in_position itself is not reset
EndOfData ==
    /\ pc = "loop"
    /\ i = n
    /\ pc' = "closed"
    /\ IF in_position
       THEN /\ exit_price' = last_row.Close
            /\ profit' = last_row.Close - entry_price
            /\ trades' = Append(trades, ClosingTrade(entry_date, entry_price, last_row))
       ELSE UNCHANGED <<exit_price, profit, trades>>
    /\ MerpEndOfData(last_row)
    /\ UNCHANGED <<use_stop_loss, n, i, last_row, crossed_above, crossed_below,
                   in_position, entry_price, entry_date, stop_loss_price,
                   exit_reason, stop_loss_exits, signal_exits, result,
                   backtest_results, summary, indicator_vars, signal_vars,
                   main_vars, df_kind>>

\* lines 126-168: the statistics are returned; the locals of the call end
\* with it
Return ==
    /\ pc = "closed"
    /\ pc' = "done"
    /\ result' = Statistics("SIM", trades, stop_loss_exits, signal_exits)
    /\ n' = 0
    /\ i' = 0
    /\ last_row' = NoRow
    /\ crossed_above' = FALSE
    /\ crossed_below' = FALSE
    /\ in_position' = FALSE
    /\ entry_price' = 0
    /\ entry_date' = 0
    /\ stop_loss_price' = 0
    /\ exit_reason' = ""
    /\ exit_price' = 0
    /\ profit' = 0
    /\ trades' = <<>>
    /\ stop_loss_exits' = 0
    /\ signal_exits' = 0
    /\ merp_position' = None
    /\ merp_trades' = <<>>
    /\ merp_stop_loss_exits' = 0
    /\ merp_signal_exits' = 0
    /\ UNCHANGED <<use_stop_loss, backtest_results, summary,
                   indicator_vars, signal_vars,
                   main_vars, df_kind>>

-----------------------------------------------------------------------------
(* calculate_portfolio_summary *)

RECURSIVE SumField(_, _)
SumField(rs, field) ==
    IF rs = <<>> THEN 0 ELSE rs[1][field] + SumField(Tail(rs), field)

RECURSIVE AllTrades(_)
AllTrades(rs) == IF rs = <<>> THEN <<>> ELSE rs[1].trades \o AllTrades(Tail(rs))

\* max(valid_results, key=...) / min(...): the first element whose key is
\* maximal / minimal
\* Mutant of MaxBy: among equal keys the last element wins.
MaxBy_LastTie(rs) ==
    rs[CHOOSE k \in 1..Len(rs) :
          /\ \A j \in 1..Len(rs) : rs[j].total_profit <= rs[k].total_profit
          /\ \A j \in (k + 1)..Len(rs) : rs[j].total_profit < rs[k].total_profit]

MaxBy(rs) ==
    rs[CHOOSE k \in 1..Len(rs) :
          /\ \A j \in 1..Len(rs) : rs[j].total_profit <= rs[k].total_profit
          /\ \A j \in 1..(k - 1) : rs[j].total_profit < rs[k].total_profit]

MinBy(rs) ==
    rs[CHOOSE k \in 1..Len(rs) :
          /\ \A j \in 1..Len(rs) : rs[j].total_profit >= rs[k].total_profit
          /\ \A j \in 1..(k - 1) : rs[j].total_profit > rs[k].total_profit]

MinPct(ts) ==
    CHOOSE m \in {ts[k].profit_pct : k \in 1..Len(ts)} :
        \A k \in 1..Len(ts) : m <= ts[k].profit_pct

Performer(r) == [ticker |-> r.ticker, profit |-> r.total_profit, win_rate |-> r.win_rate]

\* Mutant of ProfitFactor: no losses give 0 instead of infinity.
ProfitFactor_ZeroWhenNoLoss(gross_profit, gross_loss) ==
    IF gross_loss # 0
    THEN [inf |-> FALSE, x100 |-> RoundDiv(Abs(gross_profit) * 100, Abs(gross_loss))]
    ELSE [inf |-> FALSE, x100 |-> 0]

\* line 97, with the round(profit_factor, 2) of line 128: float('inf') stays
\* inf under round(x, 2)
ProfitFactor(gross_profit, gross_loss) ==
    IF gross_loss # 0
    THEN [inf |-> FALSE, x100 |-> RoundDiv(Abs(gross_profit) * 100, Abs(gross_loss))]
    ELSE [inf |-> TRUE, x100 |-> 0]

\* line 95, with the round(overall_win_rate, 2) of line 123
OverallWinRate(winning, total) ==
    IF total > 0 THEN RoundDiv(winning * 10000, total) ELSE 0

\* Mutant of EmptySummary: the profit factor of no results is the one the
\* general path gives for a zero loss, infinity.
EmptySummary_InfiniteFactor ==
    [total_stocks_analyzed |-> 0, profitable_stocks |-> 0,
     unprofitable_stocks |-> 0, total_trades |-> 0,
     winning_trades |-> 0, losing_trades |-> 0,
     overall_win_rate |-> 0, gross_profit |-> 0, gross_loss |-> 0,
     net_profit |-> 0, avg_profit_pct_per_stock |-> 0,
     profit_factor |-> [inf |-> TRUE, x100 |-> 0],
     best_performer |-> [ticker |-> "N/A", profit |-> 0, win_rate |-> 0],
     worst_performer |-> [ticker |-> "N/A", profit |-> 0, win_rate |-> 0],
     is_profitable |-> "False", stop_loss_exits |-> 0,
     signal_exits |-> 0, worst_trade_pct |-> 0, stop_loss_pct |-> 0,
     stop_loss_enabled |-> "False"]

\* lines 58-80: the summary of an empty list or of a list of None
EmptySummary ==
    [total_stocks_analyzed |-> 0, profitable_stocks |-> 0,
     unprofitable_stocks |-> 0, total_trades |-> 0,
     winning_trades |-> 0, losing_trades |-> 0,
     overall_win_rate |-> 0, gross_profit |-> 0, gross_loss |-> 0,
     net_profit |-> 0, avg_profit_pct_per_stock |-> 0,
     profit_factor |-> [inf |-> FALSE, x100 |-> 0],
     best_performer |-> [ticker |-> "N/A", profit |-> 0, win_rate |-> 0],
     worst_performer |-> [ticker |-> "N/A", profit |-> 0, win_rate |-> 0],
     is_profitable |-> "False", stop_loss_exits |-> 0,
     signal_exits |-> 0, worst_trade_pct |-> 0, stop_loss_pct |-> 0,
     stop_loss_enabled |-> "False"]

\* lines 55-145
PortfolioSummary(results, enabled) ==
    LET valid_results == SelectSeq(results, LAMBDA r : r # None)
    IN  IF valid_results = <<>> THEN EmptySummary
        ELSE
            LET total_stocks == Len(valid_results)
                profitable_stocks ==
                    Len(SelectSeq(valid_results, LAMBDA r : r.total_profit > 0))
                total_trades == SumField(valid_results, "total_trades")
                winning_trades == SumField(valid_results, "winning_trades")
                losing_trades == SumField(valid_results, "losing_trades")
                gross_profit == SumField(valid_results, "gross_profit")
                gross_loss == SumField(valid_results, "gross_loss")
                net_profit == gross_profit + gross_loss
                all_trades == AllTrades(valid_results)
            IN  [total_stocks_analyzed |-> total_stocks,
                 profitable_stocks |-> profitable_stocks,
                 unprofitable_stocks |-> total_stocks - profitable_stocks,
                 total_trades |-> total_trades,
                 winning_trades |-> winning_trades,
                 losing_trades |-> losing_trades,
                 overall_win_rate |-> OverallWinRate(winning_trades, total_trades),
                 gross_profit |-> gross_profit,
                 gross_loss |-> gross_loss,
                 net_profit |-> net_profit,
                 avg_profit_pct_per_stock |->
                     RoundDiv(SumField(valid_results, "avg_profit_pct"), total_stocks),
                 profit_factor |-> ProfitFactor(gross_profit, gross_loss),
                 best_performer |-> Performer(MaxBy(valid_results)),
                 worst_performer |-> Performer(MinBy(valid_results)),
                 is_profitable |-> IF net_profit > 0 THEN "True" ELSE "False",
                 stop_loss_exits |-> SumField(valid_results, "stop_loss_exits"),
                 signal_exits |-> SumField(valid_results, "signal_exits"),
                 worst_trade_pct |->
                     IF all_trades # <<>> THEN MinPct(all_trades) ELSE 0,
                 stop_loss_pct |-> STOP_LOSS_PCT,
                 stop_loss_enabled |-> enabled]

\* What backtest_strategy returned for the other tickers of main's list:
\* no result, a run without trades, a run with one winning signal exit and
\* a run with one stop-loss exit.
OtherResults ==
    {None,
     Statistics("AAA", <<>>, 0, 0),
     Statistics("BBB", <<MakeTrade(20, 100100, 21, 110000, "signal")>>, 0, 1),
     Statistics("CCC", <<MakeTrade(20, 110000, 21, 104500, "stop_loss")>>, 1, 0)}

RECURSIVE SeqsUpTo(_, _)
SeqsUpTo(S, k) ==
    IF k = 0 THEN {<<>>}
    ELSE LET shorter == SeqsUpTo(S, k - 1)
         IN  shorter \cup {Append(q, x) : q \in shorter, x \in S}

\* main.py lines 50-55: the result of this ticker is appended to the list,
\* among the results of the tickers before and after it
Collect ==
    /\ pc = "done"
    /\ \E before, after \in SeqsUpTo(OtherResults, MaxOthers) :
          /\ Len(before) + Len(after) <= MaxOthers
          /\ backtest_results' = before \o <<result>> \o after
    /\ pc' = "collected"
    /\ UNCHANGED <<use_stop_loss, n, i, last_row, crossed_above, crossed_below,
                   in_position, entry_price, entry_date, stop_loss_price,
                   exit_reason, exit_price, profit, trades, stop_loss_exits,
                   signal_exits, result, summary,
                   indicator_vars, signal_vars,
                   main_vars, merp_vars, df_kind>>

\* main.py line 61
Summarize ==
    /\ pc = "collected"
    /\ summary' = PortfolioSummary(backtest_results, use_stop_loss)
    /\ pc' = "summarized"
    /\ UNCHANGED <<use_stop_loss, n, i, last_row, crossed_above, crossed_below,
                   in_position, entry_price, entry_date, stop_loss_price,
                   exit_reason, exit_price, profit, trades, stop_loss_exits,
                   signal_exits, result, backtest_results,
                   indicator_vars, signal_vars,
                   main_vars, merp_vars, df_kind>>

Next ==
    \/ Reject
    \/ Start
    \/ SkipBar
    \/ Enter
    \/ ExitBar
    \/ HoldBar
    \/ FlatBar
    \/ EndOfData
    \/ Return
    \/ Collect
    \/ Summarize

Spec == Init /\ [][Next]_vars

-----------------------------------------------------------------------------
(* backtest_strategy on a frame the data loader did not validate *)

InitUnvalidated ==
    /\ pc = "start"
    /\ use_stop_loss \in BOOLEAN
    /\ n \in (MIN_ROWS - 1) .. MaxBars
    /\ df_kind \in FrameKinds \ {"validated"}
    /\ i = 0
    /\ last_row = NoRow
    /\ crossed_above = FALSE
    /\ crossed_below = FALSE
    /\ in_position = FALSE
    /\ entry_price = 0
    /\ entry_date = 0
    /\ stop_loss_price = 0
    /\ exit_reason = ""
    /\ exit_price = 0
    /\ profit = 0
    /\ trades = <<>>
    /\ stop_loss_exits = 0
    /\ signal_exits = 0
    /\ result = None
    /\ backtest_results = <<>>
    /\ summary = None
    /\ IndicatorIdle
    /\ SignalIdle
    /\ MainIdle
    /\ MerpIdle

SpecUnvalidated == InitUnvalidated /\ [][Next]_vars

-----------------------------------------------------------------------------
(* calculate_portfolio_summary called on its own, on any list *)

MaxResults == 3      \* the longest list handed to calculate_portfolio_summary

\* backtest_strategy is not being called
BacktestIdle ==
    /\ n = 0
    /\ i = 0
    /\ last_row = NoRow
    /\ crossed_above = FALSE
    /\ crossed_below = FALSE
    /\ in_position = FALSE
    /\ entry_price = 0
    /\ entry_date = 0
    /\ stop_loss_price = 0
    /\ exit_reason = ""
    /\ exit_price = 0
    /\ profit = 0
    /\ trades = <<>>
    /\ stop_loss_exits = 0
    /\ signal_exits = 0
    /\ result = None

\* The elements of the list: those of OtherResults, a second run without
\* trades and a second run with the winning trade of "BBB", so that the
\* largest and the smallest total_profit can be shared by two tickers.
SummaryInputs ==
    OtherResults \cup
    {Statistics("DDD", <<>>, 0, 0),
     Statistics("EEE", <<MakeTrade(20, 100100, 21, 110000, "signal")>>, 0, 1)}

InitSummary ==
    /\ pc = "collected"
    /\ use_stop_loss \in BOOLEAN
    /\ backtest_results \in SeqsUpTo(SummaryInputs, MaxResults)
    /\ summary = None
    /\ BacktestIdle
    /\ IndicatorIdle
    /\ SignalIdle
    /\ MainIdle
    /\ MerpIdle
    /\ df_kind = "validated"

NextSummary == Summarize

SpecSummary == InitSummary /\ [][NextSummary]_vars

-----------------------------------------------------------------------------
(* signals.py: calculate_position_size and generate_current_signal         *)
(*                                                                         *)
(* A value that can be NaN is a tuple: <<>> is NaN.  distance_from_sma and *)
(* signal_strength are the fraction <<num, den>> percent with den > 0, so  *)
(* that the tiers are compared without rounding.  An exception that leaves *)
(* a function is the record [error |-> its class].                         *)

PORTFOLIO_SIZE == 10000      \* config.py, dollars
MAX_POSITION_PCT == 10       \* config.py: 0.10, here in percent
RISK_PER_TRADE_PCT == 2      \* config.py: 0.02, here in percent

IsError(x) == "error" \in DOMAIN x

Min(a, b) == IF a <= b THEN a ELSE b

\* int(num / den): the quotient truncated toward zero
Trunc(num, den) ==
    IF (num >= 0) = (den > 0) THEN Abs(num) \div Abs(den)
    ELSE -(Abs(num) \div Abs(den))

\* `signal_strength > k`; False for NaN
StrengthGt(s, k) == ~isna(s) /\ s[1] > k * s[2]

\* Mutant of PositionMultiplier: the tier bounds are inclusive.
PositionMultiplier_Inclusive(s) ==
    IF StrengthGt(s, 5) \/ (~isna(s) /\ s[1] = 5 * s[2]) THEN 100
    ELSE IF StrengthGt(s, 2) \/ (~isna(s) /\ s[1] = 2 * s[2]) THEN 75
    ELSE IF StrengthGt(s, 0) \/ (~isna(s) /\ s[1] = 0) THEN 50
    ELSE 25

\* lines 30-37: position_multiplier, in percent
PositionMultiplier(s) ==
    IF StrengthGt(s, 5) THEN 100
    ELSE IF StrengthGt(s, 2) THEN 75
    ELSE IF StrengthGt(s, 0) THEN 50
    ELSE 25

\* lines 25, 39: position_dollars, in units
PositionDollars(s) ==
    LET max_position_dollars == (PORTFOLIO_SIZE * 10000 * MAX_POSITION_PCT) \div 100
    IN  Min((max_position_dollars * PositionMultiplier(s)) \div 100,
            max_position_dollars)

\* lines 25-53.  There is no test of the price: a zero price divides by
\* zero (ZeroDivisionError for a float, int(inf) and OverflowError for a
\* numpy float, both of class ArithmeticError), a negative price goes
\* through the same arithmetic as a positive one.
CalculatePositionSize(p, s) ==
    IF p = 0 THEN [error |-> "ArithmeticError"]
    ELSE
        LET risk_dollars == (PORTFOLIO_SIZE * 10000 * RISK_PER_TRADE_PCT) \div 100
            shares == Trunc(PositionDollars(s), p)
            actual_dollars == shares * p
        IN  [shares |-> shares,
             dollars |-> Round2(actual_dollars),
             position_pct |-> RoundDiv(actual_dollars, PORTFOLIO_SIZE),
             risk_dollars |-> Round2(risk_dollars),
             stop_loss_price |-> RoundDiv(p * (100 - STOP_LOSS_PCT), 10000),
             stop_loss_pct |-> STOP_LOSS_PCT]

\* Mutant of DistanceFromSma: the distance is taken from the price down to
\* the SMA.
DistanceFromSma_Reversed(p, s) ==
    IF isna(s) THEN <<>> ELSE <<(s[1] - p) * 100, s[1]>>

\* line 76
DistanceFromSma(p, s) ==
    IF isna(s) THEN <<>> ELSE <<(p - s[1]) * 100, s[1]>>

\* Mutant of SignalKind: the plain `price > sma` test comes first.
SignalKind_BuyFirst(prev, cur) ==
    IF Gt(cur.Close, cur.SMA) THEN "BUY"
    ELSE IF CrossedAbove(prev, cur) THEN "STRONG BUY"
    ELSE IF CrossedBelow(prev, cur) THEN "SELL"
    ELSE "HOLD"

\* lines 79-90
SignalKind(prev, cur) ==
    IF CrossedAbove(prev, cur) THEN "STRONG BUY"
    ELSE IF Gt(cur.Close, cur.SMA) THEN "BUY"
    ELSE IF CrossedBelow(prev, cur) THEN "SELL"
    ELSE "HOLD"

\* Mutant of PositionFor: every signal but HOLD is sized.
PositionFor_AllButHold(kind, p, dist) ==
    IF kind # "HOLD" THEN CalculatePositionSize(p, dist) ELSE None

\* lines 93-95
PositionFor(kind, p, dist) ==
    IF kind \in {"STRONG BUY", "BUY"} THEN CalculatePositionSize(p, dist) ELSE None

\* round(x, 2) of a value that can be NaN
Round2NaN(x, den) == IF isna(x) THEN <<>> ELSE <<RoundDiv(x[1], den)>>

\* lines 67-107; iloc[-1] and iloc[-2] need two rows.  The timestamp of
\* the Signal is the wall clock and is left out.
GenerateCurrentSignal(frame, ticker) ==
    IF Len(frame) < 2 THEN [error |-> "IndexError"]
    ELSE
        LET current == frame[Len(frame)]
            previous == frame[Len(frame) - 1]
            distance_from_sma == DistanceFromSma(current.Close, current.SMA)
            kind == SignalKind(previous, current)
            pos == PositionFor(kind, current.Close, distance_from_sma)
        IN  IF IsError(pos) THEN pos
            ELSE [ticker |-> ticker,
                  signal |-> kind,
                  price |-> Round2(current.Close),
                  sma |-> Round2NaN(current.SMA, 100),
                  distance_pct |->
                      IF isna(distance_from_sma) THEN <<>>
                      ELSE <<RoundDiv(distance_from_sma[1] * 100,
                                      distance_from_sma[2])>>,
                  crossed_above |-> CrossedAbove(previous, current),
                  crossed_below |-> CrossedBelow(previous, current),
                  position |-> pos]

(* The inputs.  Only the last two rows of df are read, so df is given by   *)
(* them; a df of fewer rows is given whole.                                *)
SignalCloses == {95000, 100000, 100001, 101000, 102000, 105000, 110000}
SignalSmas == {100000}
SignalRows == [Close : SignalCloses, SMA : {<<>>} \cup {<<s>> : s \in SignalSmas}]
SignalFrames ==
    {<<>>} \cup {<<r>> : r \in SignalRows}
           \cup {<<r, c>> : r \in SignalRows, c \in SignalRows}

SizePrices == {-500000, 0, 101000, 330000}
SizeStrengths == {<<>>} \cup {<<k, 1>> : k \in {-1, 0, 1, 2, 3, 5, 6}}

InitSignal ==
    /\ \/ /\ pc = "signal"
          /\ df \in SignalFrames
          /\ size_price = 0
          /\ size_strength = None
       \/ /\ pc = "size"
          /\ df = <<>>
          /\ size_price \in SizePrices
          /\ size_strength \in SizeStrengths
    /\ signal = None
    /\ position = None
    /\ use_stop_loss = TRUE
    /\ backtest_results = <<>>
    /\ summary = None
    /\ BacktestIdle
    /\ IndicatorIdle
    /\ MainIdle
    /\ MerpIdle
    /\ df_kind = "validated"

\* portfolio.py line 39: generate_current_signal(df, ticker)
GenerateSignal ==
    /\ pc = "signal"
    /\ signal' = GenerateCurrentSignal(df, "SIM")
    /\ pc' = "signal_done"
    /\ UNCHANGED <<use_stop_loss, n, i, last_row, crossed_above, crossed_below,
                   in_position, entry_price, entry_date, stop_loss_price,
                   exit_reason, exit_price, profit, trades, stop_loss_exits,
                   signal_exits, result, backtest_results, summary,
                   indicator_vars, df, size_price, size_strength, position,
                   main_vars, merp_vars, df_kind>>

\* calculate_position_size(price, signal_strength) called on its own
SizePosition ==
    /\ pc = "size"
    /\ position' = CalculatePositionSize(size_price, size_strength)
    /\ pc' = "size_done"
    /\ UNCHANGED <<use_stop_loss, n, i, last_row, crossed_above, crossed_below,
                   in_position, entry_price, entry_date, stop_loss_price,
                   exit_reason, exit_price, profit, trades, stop_loss_exits,
                   signal_exits, result, backtest_results, summary,
                   indicator_vars, df, signal, size_price, size_strength,
                   main_vars, merp_vars, df_kind>>

NextSignal ==
    \/ GenerateSignal
    \/ SizePosition

SpecSignal == InitSignal /\ [][NextSignal]_vars

-----------------------------------------------------------------------------
(* indicators.py: calculate_sma(df, period), followed by the call of       *)
(* backtest_strategy on the frame it returned                              *)
(*                                                                         *)
(* The mean of a window is the fraction <<sum, period>>: two means over    *)
(* the same period are equal when the sums are.                            *)

MaxCloses == 4       \* the longest Close column drawn freely
MaxPeriod == 3       \* the largest period

CloseVals == {90000, 100000, 110000}

\* closes 10 10 10 10 10 10 9 11 12 13 9 9, in units
ScenarioCloses ==
    <<100000, 100000, 100000, 100000, 100000, 100000,
      90000, 110000, 120000, 130000, 90000, 90000>>

\* Mutant of RollingSum: the oldest close leaves the window one row late.
RECURSIVE RollingSum_LateDrop(_, _, _)
RollingSum_LateDrop(cl, per, k) ==
    IF k = 0 THEN 0
    ELSE RollingSum_LateDrop(cl, per, k - 1) + cl[k]
         - (IF k > per + 1 THEN cl[k - per - 1] ELSE 0)

\* rolling(window=period): the running sum of the window that ends at row
\* k (1-based); a close enters when its row is reached and leaves when it
\* is `per` rows old
RECURSIVE RollingSum(_, _, _)
RollingSum(cl, per, k) ==
    IF k = 0 THEN 0
    ELSE RollingSum(cl, per, k - 1) + cl[k]
         - (IF k > per THEN cl[k - per] ELSE 0)

\* line 20: df['Close'].rolling(window=period).mean(); min_periods is the
\* window, so the rows before the first full window are NaN
CalculateSMA(cl, per) ==
    [k \in 1..Len(cl) |->
        IF k < per THEN <<>> ELSE <<RollingSum(cl, per, k), per>>]

InitSMA ==
    /\ pc = "sma"
    /\ closes \in SeqsUpTo(CloseVals, MaxCloses) \cup {ScenarioCloses}
    /\ period \in 1..MaxPeriod
    /\ sma_column = <<>>
    /\ use_stop_loss = TRUE
    /\ backtest_results = <<>>
    /\ summary = None
    /\ BacktestIdle
    /\ SignalIdle
    /\ MainIdle
    /\ MerpIdle
    /\ df_kind = "validated"

\* portfolio.py lines 36-42: df = calculate_sma(df, period), then
\* backtest_strategy(ticker, df) is called on it
CalcSMA ==
    /\ pc = "sma"
    /\ sma_column' = CalculateSMA(closes, period)
    /\ n' = Len(closes)
    /\ pc' = "start"
    /\ UNCHANGED <<use_stop_loss, i, last_row, crossed_above, crossed_below,
                   in_position, entry_price, entry_date, stop_loss_price,
                   exit_reason, exit_price, profit, trades, stop_loss_exits,
                   signal_exits, result, backtest_results, summary,
                   closes, period, signal_vars, main_vars, merp_vars,
                   df_kind>>

\* every frame drawn here has fewer than MIN_ROWS rows, so backtest_strategy
\* leaves through its first return
NextSMA ==
    \/ CalcSMA
    \/ Reject

SpecSMA == InitSMA /\ [][NextSMA]_vars

-----------------------------------------------------------------------------
(* main.py: the batch loop over the tickers, the summary and the report    *)

MaxTickers == 3      \* the longest ticker list

\* reporting.py lines 14-124.  The report is kept as the numbers it prints
\* that are computed here; everything else is formatting of summary fields.
\* Line 51 divides by total_stocks_analyzed and lines 67-68 divide by
\* total_trades.
GenerateReport(sigs, results, s) ==
    IF s.total_stocks_analyzed = 0 THEN [error |-> "ZeroDivisionError"]
    ELSE IF s.total_trades = 0 THEN [error |-> "ZeroDivisionError"]
    ELSE
        LET Kind(k) == Len(SelectSeq(sigs, LAMBDA x : x # None /\ x.signal = k))
        IN  [stocks_analyzed |-> s.total_stocks_analyzed,
             profitable_pct |->
                 RoundDiv(s.profitable_stocks * 1000, s.total_stocks_analyzed),
             stop_loss_exit_pct |->
                 RoundDiv(s.stop_loss_exits * 1000, s.total_trades),
             signal_exit_pct |->
                 RoundDiv(s.signal_exits * 1000, s.total_trades),
             strong_buy |-> Kind("STRONG BUY"),
             buy |-> Kind("BUY"),
             sell |-> Kind("SELL"),
             performers |-> Min(15, Len(SelectSeq(results, LAMBDA r : r # None)))]

(* What fetch_stock_data can return for a ticker: None, or a frame given   *)
(* by its length, its last two rows (all generate_current_signal reads)    *)
(* and the result backtest_strategy has on it.                             *)
\* the last two rows below, across and above an SMA of 10.00
TailBelow == <<[Close |-> 95000, SMA |-> <<100000>>],
               [Close |-> 95000, SMA |-> <<100000>>]>>
TailCrossDown == <<[Close |-> 110000, SMA |-> <<100000>>],
                   [Close |-> 95000, SMA |-> <<100000>>]>>
TailAbove == <<[Close |-> 110000, SMA |-> <<100000>>],
               [Close |-> 110000, SMA |-> <<100000>>]>>
\* prices that are not positive: the last close is 0 above a negative mean
TailNonPositive == <<[Close |-> -20000, SMA |-> <<-10000>>],
                     [Close |-> 0, SMA |-> <<-10000>>]>>

FetchedFrames ==
    {None,
     [ticker |-> "NEW", rows |-> 24, tail |-> TailAbove,
      backtest |-> Statistics("NEW", <<>>, 0, 0)],
     [ticker |-> "AAA", rows |-> 25, tail |-> TailBelow,
      backtest |-> Statistics("AAA", <<>>, 0, 0)],
     [ticker |-> "BBB", rows |-> 25, tail |-> TailCrossDown,
      backtest |-> Statistics("BBB", <<MakeTrade(20, 100100, 21, 110000, "signal")>>, 0, 1)],
     [ticker |-> "CCC", rows |-> 25, tail |-> TailAbove,
      backtest |-> Statistics("CCC", <<MakeTrade(20, 110000, 21, 104500, "stop_loss")>>, 1, 0)],
     [ticker |-> "ZZZ", rows |-> 25, tail |-> TailNonPositive,
      backtest |-> Statistics("ZZZ", <<>>, 0, 0)]}

\* portfolio.py lines 12-42; an exception of generate_current_signal is not
\* caught and leaves analyze_stock
AnalyzeStock(f) ==
    IF f = None \/ f.rows < 25 THEN [signal |-> None, backtest |-> None]
    ELSE LET sig == GenerateCurrentSignal(f.tail, f.ticker)
         IN  IF IsError(sig) THEN sig
             ELSE [signal |-> sig, backtest |-> f.backtest]

InitBatch ==
    /\ pc = "batch"
    /\ tickers \in 1..MaxTickers
    /\ signals = <<>>
    /\ backtest_results = <<>>
    /\ summary = None
    /\ report = None
    /\ use_stop_loss = TRUE
    /\ df_kind = "validated"
    /\ BacktestIdle
    /\ IndicatorIdle
    /\ SignalIdle
    /\ MerpIdle

\* main.py lines 50-55: one iteration that returns
AnalyzeNext ==
    /\ pc = "batch"
    /\ Len(backtest_results) < tickers
    /\ \E f \in FetchedFrames :
          /\ ~IsError(AnalyzeStock(f))
          /\ signals' = Append(signals, AnalyzeStock(f).signal)
          /\ backtest_results' = Append(backtest_results, AnalyzeStock(f).backtest)
    /\ UNCHANGED <<pc, use_stop_loss, n, i, last_row, crossed_above,
                   crossed_below, in_position, entry_price, entry_date,
                   stop_loss_price, exit_reason, exit_price, profit, trades,
                   stop_loss_exits, signal_exits, result, summary,
                   indicator_vars, signal_vars, tickers, report, merp_vars,
                   df_kind>>

\* main.py line 53 has no handler: an exception of analyze_stock ends main
AnalyzeRaises ==
    /\ pc = "batch"
    /\ Len(backtest_results) < tickers
    /\ \E f \in FetchedFrames : IsError(AnalyzeStock(f))
    /\ pc' = "aborted"
    /\ UNCHANGED <<use_stop_loss, n, i, last_row, crossed_above,
                   crossed_below, in_position, entry_price, entry_date,
                   stop_loss_price, exit_reason, exit_price, profit, trades,
                   stop_loss_exits, signal_exits, result, backtest_results,
                   summary, indicator_vars, signal_vars, main_vars, merp_vars,
                   df_kind>>

\* main.py lines 56-60: the loop is over
LoopEnds ==
    /\ pc = "batch"
    /\ Len(backtest_results) = tickers
    /\ pc' = "collected"
    /\ UNCHANGED <<use_stop_loss, n, i, last_row, crossed_above,
                   crossed_below, in_position, entry_price, entry_date,
                   stop_loss_price, exit_reason, exit_price, profit, trades,
                   stop_loss_exits, signal_exits, result, backtest_results,
                   summary, indicator_vars, signal_vars, main_vars, merp_vars,
                   df_kind>>

\* main.py lines 65-67; an exception of generate_report ends main
Report ==
    /\ pc = "summarized"
    /\ report' = GenerateReport(signals, backtest_results, summary)
    /\ pc' = IF IsError(report') THEN "aborted" ELSE "reported"
    /\ UNCHANGED <<use_stop_loss, n, i, last_row, crossed_above,
                   crossed_below, in_position, entry_price, entry_date,
                   stop_loss_price, exit_reason, exit_price, profit, trades,
                   stop_loss_exits, signal_exits, result, backtest_results,
                   summary, indicator_vars, signal_vars, tickers, signals,
                   merp_vars, df_kind>>

NextBatch ==
    \/ AnalyzeNext
    \/ AnalyzeRaises
    \/ LoopEnds
    \/ Summarize
    \/ Report

SpecBatch == InitBatch /\ [][NextBatch]_vars

-----------------------------------------------------------------------------
(* Properties *)

Last(seq) == seq[Len(seq)]

\* a step that is one iteration of the loop: it consumed the row last_row'
\* with last_row as its predecessor
LoopStep == pc = "loop" /\ i' = i + 1

\* the ledger in hand: the local list during the call, the returned one after
Ledgers ==
    {trades} \cup (IF result # None THEN {result.trades} ELSE {})
             \cup {backtest_results[k].trades :
                      k \in {j \in 1..Len(backtest_results) : backtest_results[j] # None}}

\* C1: while in a position with the stop-loss enabled, a bar whose low is at
\* or below the stop and which is also a downward crossover closes the trade
\* as a stop-loss exit at the stop price, never as a signal exit.
C1_StopLossBeforeSignal ==
    [][(/\ LoopStep
        /\ in_position
        /\ use_stop_loss
        /\ ~isna(last_row.SMA)
        /\ ~isna(last_row'.SMA)
        /\ last_row'.Low <= stop_loss_price
        /\ last_row.Close >= last_row.SMA[1]
        /\ last_row'.Close < last_row'.SMA[1])
       => (/\ trades' # trades
           /\ Len(trades') = Len(trades) + 1
           /\ Last(trades').exit_reason = "stop_loss"
           /\ Last(trades').exit_reason # "signal"
           /\ Last(trades').exit_date = last_row'.Datetime
           /\ exit_price' = stop_loss_price
           /\ Last(trades').exit_price = Round2(stop_loss_price)
           /\ stop_loss_exits' = stop_loss_exits + 1
           /\ signal_exits' = signal_exits)]_vars

C1_Witness ==
    /\ pc = "loop"
    /\ use_stop_loss
    /\ trades # <<>>
    /\ Last(trades).exit_date = last_row.Datetime
    /\ Last(trades).exit_reason = "stop_loss"
    /\ crossed_below
    /\ last_row.Low <= stop_loss_price

\* C2: at most one position is open: a bar seen while in a position never
\* opens another one (the open position's entry is left as it is), and in
\* every ledger each trade is entered strictly after the trade before it
\* was exited; a position still open was entered after the last exit.
C2_LedgerOrdered ==
    /\ \A ts \in Ledgers :
          \A k \in 2..Len(ts) : ts[k].entry_date > ts[k - 1].exit_date
    /\ (pc = "loop" /\ in_position /\ trades # <<>>)
          => entry_date > Last(trades).exit_date

C2_NoSecondEntry ==
    (LoopStep /\ in_position)
       => /\ entry_date' = entry_date
          /\ entry_price' = entry_price
          /\ stop_loss_price' = stop_loss_price

C2_AtMostOnePosition == []C2_LedgerOrdered /\ [][C2_NoSecondEntry]_vars

C2_Witness ==
    /\ pc = "loop"
    /\ in_position
    /\ crossed_above
    /\ entry_date < last_row.Datetime
    /\ entry_price # last_row.Close

\* C3: every trade of the ledger, whatever its exit reason, has an exit date
\* strictly after its entry date.
C3_ExitAfterEntry ==
    \A ts \in Ledgers : \A k \in 1..Len(ts) : ts[k].exit_date > ts[k].entry_date

\* C4: a position still open after the last bar is closed by exactly one
\* more trade: END-OF-DATA, at the close and on the date of the last bar of
\* the frame; the open position is then in the ledger, and an END-OF-DATA
\* trade is only ever the last entry of a ledger.
C4_ClosureStep ==
    (pc = "loop" /\ pc' = "closed")
       => IF in_position
          THEN /\ Len(trades') = Len(trades) + 1
               /\ SubSeq(trades', 1, Len(trades)) = trades
               /\ Last(trades').exit_reason = "END-OF-DATA"
               /\ exit_price' = last_row.Close
               /\ Last(trades').exit_price = Round2(last_row.Close)
               /\ Last(trades').exit_date = last_row.Datetime
               /\ last_row.Datetime = n - 1
               /\ Last(trades').entry_date = entry_date
               /\ Last(trades').entry_price = Round2(entry_price)
          ELSE trades' = trades

C4_OnlyLast ==
    /\ \A ts \in Ledgers :
          \A k \in 1..Len(ts) : ts[k].exit_reason = "END-OF-DATA" => k = Len(ts)
    /\ \A k \in 1..Len(trades) :
          trades[k].exit_reason = "END-OF-DATA" => pc = "closed"
    /\ (pc = "closed" /\ in_position)
          => /\ trades # <<>>
             /\ Last(trades).exit_reason = "END-OF-DATA"
             /\ Last(trades).entry_date = entry_date
    /\ (pc = "closed" /\ ~in_position /\ trades # <<>>)
          => Last(trades).exit_reason # "END-OF-DATA"

C4_EndOfDataClosure == []C4_OnlyLast /\ [][C4_ClosureStep]_vars

C4_Witness ==
    /\ pc = "closed"
    /\ in_position
    /\ Len(trades) = 2
    /\ trades[2].exit_reason = "END-OF-DATA"
    /\ trades[2].exit_date > trades[2].entry_date

\* C5: the bar on which a trade is closed opens no position, even when it is
\* an upward crossover: after it the simulator is flat with the position
\* fields untouched, and a later entry happens on a strictly later bar.
C5_ExitBarStaysFlat ==
    (LoopStep /\ trades' # trades)
       => /\ ~in_position'
          /\ entry_date' = entry_date
          /\ entry_price' = entry_price
          /\ stop_loss_price' = stop_loss_price

C5_EntryOnLaterBar ==
    (LoopStep /\ ~in_position /\ in_position' /\ trades # <<>>)
       => /\ trades' = trades
          /\ entry_date' = last_row'.Datetime
          /\ entry_date' > Last(trades).exit_date

C5_NoSameBarReversal == [][C5_ExitBarStaysFlat /\ C5_EntryOnLaterBar]_vars

C5_Witness ==
    /\ pc = "loop"
    /\ ~in_position
    /\ trades # <<>>
    /\ Last(trades).exit_date = last_row.Datetime
    /\ crossed_above

CountIf(ts, Test(_)) == Len(SelectSeq(ts, Test))

\* C6: a trade closed by the stop-loss is closed at (1 - STOP_LOSS_PCT) of
\* the entry price of the position it closes, whatever the bar's low, so its
\* profit is -STOP_LOSS_PCT of that entry price; the ledger holds these
\* values rounded to cents, with a profit that is not positive, and the
\* statistics count the trade among the losing trades.
C6_StopStep ==
    (LoopStep /\ trades' # trades /\ Last(trades').exit_reason = "stop_loss")
       => /\ use_stop_loss
          /\ 100 * exit_price' = (100 - STOP_LOSS_PCT) * entry_price
          /\ 100 * profit' = (0 - STOP_LOSS_PCT) * entry_price
          /\ exit_price' = stop_loss_price
          /\ Last(trades').entry_date = entry_date
          /\ Last(trades').entry_price = Round2(entry_price)
          /\ Last(trades').exit_price = Round2(exit_price')
          /\ Last(trades').profit = Round2(profit')
          /\ 100 * Last(trades').exit_price - exit_price' \in -50..50
          /\ 100 * Last(trades').profit - profit' \in -50..50

C6_StopTradesLose ==
    /\ \A ts \in Ledgers :
          \A k \in 1..Len(ts) :
             ts[k].exit_reason = "stop_loss"
                => ts[k].profit <= 0 /\ ts[k].profit_pct = 0 - 100 * STOP_LOSS_PCT
    /\ (pc = "done" /\ result # None)
          => /\ result.losing_trades =
                   CountIf(result.trades, LAMBDA t : t.profit <= 0)
             /\ result.losing_trades >=
                   CountIf(result.trades, LAMBDA t : t.exit_reason = "stop_loss")

C6_StopLossExitPrice == []C6_StopTradesLose /\ [][C6_StopStep]_vars

C6_Witness ==
    /\ pc = "loop"
    /\ Len(trades) = 2
    /\ trades[2].exit_reason = "stop_loss"
    /\ trades[2].exit_date = last_row.Datetime
    /\ trades[1].entry_price # trades[2].entry_price
    /\ last_row.Low < stop_loss_price

\* C7: while flat, a bar opens a position exactly when its SMA and the SMA
\* of the bar before it are defined, the previous close is at or below the
\* previous SMA and the close is above the SMA; the position opened has the
\* bar's close as entry price and the bar's date as entry date.
C7_EntryStep ==
    (LoopStep /\ ~in_position)
       => LET upward == /\ ~isna(last_row.SMA)
                        /\ ~isna(last_row'.SMA)
                        /\ last_row.Close <= last_row.SMA[1]
                        /\ last_row'.Close > last_row'.SMA[1]
          IN  /\ in_position' <=> upward
              /\ in_position' => /\ entry_price' = last_row'.Close
                                 /\ entry_date' = last_row'.Datetime
                                 /\ trades' = trades
              /\ ~in_position' => /\ entry_price' = entry_price
                                  /\ entry_date' = entry_date

C7_EntryIffUpwardCrossover == [][C7_EntryStep]_vars

C7_Witness ==
    /\ pc = "loop"
    /\ in_position
    /\ crossed_above
    /\ entry_date = last_row.Datetime
    /\ entry_price = last_row.Close
    /\ trades # <<>>

\* C8: the rows are consumed once, oldest first, and a bar whose SMA or
\* whose predecessor's SMA is undefined changes nothing: position state,
\* ledger and exit counters are the same after it.
C8_SkipStep ==
    LoopStep
       => /\ last_row'.Datetime = i
          /\ (i > 1 => last_row.Datetime = i - 1)
          /\ (isna(last_row.SMA) \/ isna(last_row'.SMA))
                => UNCHANGED <<in_position, entry_price, entry_date,
                               stop_loss_price, trades, stop_loss_exits,
                               signal_exits, exit_price, profit>>

RECURSIVE TotalOf(_, _)
TotalOf(rs, field) ==
    IF rs = <<>> THEN 0
    ELSE (IF rs[1] # None THEN rs[1][field] ELSE 0) + TotalOf(Tail(rs), field)

Returned ==
    (IF result # None THEN {result} ELSE {})
       \cup {backtest_results[k] :
               k \in {j \in 1..Len(backtest_results) : backtest_results[j] # None}}

\* C9: in every result of backtest_strategy and in every portfolio summary
\* the total (net) profit is gross_profit + gross_loss, gross_profit is not
\* negative, gross_loss is not positive and the win rate is between 0 and
\* 100 (rates are in hundredths of a percent, money in cents).
C9_AggregationConsistency ==
    /\ \A r \in Returned :
          /\ r.total_profit = r.gross_profit + r.gross_loss
          /\ r.total_profit = SumBy(r.trades, "profit")
          /\ r.gross_profit >= 0
          /\ r.gross_loss <= 0
          /\ r.win_rate \in 0..10000
    /\ summary # None
          => /\ summary.net_profit = summary.gross_profit + summary.gross_loss
             /\ summary.gross_profit = TotalOf(backtest_results, "gross_profit")
             /\ summary.gross_loss = TotalOf(backtest_results, "gross_loss")
             /\ summary.gross_profit >= 0
             /\ summary.gross_loss <= 0
             /\ summary.overall_win_rate \in 0..10000

C9_Witness ==
    /\ pc = "summarized"
    /\ result # None
    /\ result.winning_trades >= 1
    /\ result.losing_trades >= 1
    /\ summary.gross_profit > result.gross_profit
    /\ summary.gross_loss < 0
    /\ summary.overall_win_rate \in 1..9999

\* C10: for a list with at least one result, the summary's profit factor is
\* |gross_profit / gross_loss| of the summed values (as reported, rounded to
\* two decimals) when the summed gross_loss is not zero, and the infinity
\* value when the summed gross_loss is zero and the summed gross_profit is
\* positive; the summary is produced for every list.
C10_ProfitFactor ==
    /\ pc = "collected" => ENABLED Summarize
    /\ (pc = "summarized" /\ \E k \in 1..Len(backtest_results) : backtest_results[k] # None)
          => LET gp == TotalOf(backtest_results, "gross_profit")
                 gl == TotalOf(backtest_results, "gross_loss")
                 pf == summary.profit_factor
             IN  /\ gl # 0
                    => /\ ~pf.inf
                       /\ pf.x100 >= 0
                       /\ 2 * Abs(pf.x100 * Abs(gl) - 100 * Abs(gp)) <= Abs(gl)
                 /\ (gl = 0 /\ gp > 0) => pf.inf

C10_Witness ==
    /\ pc = "summarized"
    /\ Len(backtest_results) = 2
    /\ summary.total_stocks_analyzed = 2
    /\ summary.gross_loss = 0
    /\ summary.gross_profit > 0
    /\ summary.profit_factor.inf

-----------------------------------------------------------------------------
(* C11: a run over a frame long enough to be evaluated that closes no      *)
(* trade does not fail and does not return "no result": it returns a       *)
(* result whose total_trades, winning_trades, losing_trades, win_rate,     *)
(* gross_profit, gross_loss, total_profit, avg_profit_pct, stop_loss_exits *)
(* and signal_exits are all 0 and whose ledger is empty.                   *)

ZeroFields ==
    {"total_trades", "winning_trades", "losing_trades", "win_rate",
     "gross_profit", "gross_loss", "total_profit", "avg_profit_pct",
     "stop_loss_exits", "signal_exits"}

C11_ReturnStep ==
    pc = "closed" /\ pc' = "done" /\ trades = <<>> =>
        /\ result' # None
        /\ \A f \in ZeroFields : result'[f] = 0
        /\ result'.trades = <<>>

\* the loop over an evaluated frame always reaches the return
C11_Completes ==
    /\ pc = "loop" => i <= n /\ (i = n => ENABLED EndOfData)
    /\ pc = "closed" => ENABLED Return

C11_ZeroTradeResult == []C11_Completes /\ [][C11_ReturnStep]_vars

C11_Witness ==
    /\ pc = "done"
    /\ result # None
    /\ result.total_trades = 0
    /\ result.trades = <<>>
    /\ result.ticker = "SIM"

-----------------------------------------------------------------------------
(* C12: calculate_portfolio_summary on an empty list, or on a list whose   *)
(* entries are all "no result", raises no error and returns a summary (not *)
(* None) with total_stocks_analyzed = 0, profitable_stocks = 0,            *)
(* total_trades = 0, profit_factor = 0 and the marker 'N/A' as best and as *)
(* worst performer.                                                        *)

NoValidResult == \A k \in 1..Len(backtest_results) : backtest_results[k] = None

C12_EmptySummary ==
    /\ pc = "collected" => ENABLED Summarize
    /\ pc = "summarized" /\ NoValidResult =>
          /\ summary # None
          /\ summary.total_stocks_analyzed = 0
          /\ summary.profitable_stocks = 0
          /\ summary.total_trades = 0
          /\ summary.profit_factor = [inf |-> FALSE, x100 |-> 0]
          /\ summary.best_performer.ticker = "N/A"
          /\ summary.worst_performer.ticker = "N/A"

C12_Witness ==
    /\ pc = "summarized"
    /\ backtest_results = <<>>
    /\ summary # None
    /\ summary.best_performer.ticker = "N/A"

\* the same case with a list that is not empty
C12_WitnessAllNone ==
    /\ pc = "summarized"
    /\ backtest_results = <<None, None>>
    /\ summary # None
    /\ summary.total_stocks_analyzed = 0

-----------------------------------------------------------------------------
(* C13: among the results that are not "no result", best_performer is the  *)
(* one with the largest total_profit and worst_performer the one with the  *)
(* smallest; when several share that value, the first of them in input     *)
(* order is reported, for the best and for the worst alike.                *)

ValidResults == SelectSeq(backtest_results, LAMBDA r : r # None)

\* position b of rs holds the first largest, position w the first smallest
FirstLargest(rs, b) ==
    /\ \A j \in 1..Len(rs) : rs[j].total_profit <= rs[b].total_profit
    /\ \A j \in 1..(b - 1) : rs[j].total_profit # rs[b].total_profit

FirstSmallest(rs, w) ==
    /\ \A j \in 1..Len(rs) : rs[j].total_profit >= rs[w].total_profit
    /\ \A j \in 1..(w - 1) : rs[j].total_profit # rs[w].total_profit

C13_BestAndWorstPerformer ==
    pc = "summarized" /\ ValidResults # <<>> =>
        \E b, w \in 1..Len(ValidResults) :
            /\ FirstLargest(ValidResults, b)
            /\ FirstSmallest(ValidResults, w)
            /\ summary.best_performer.ticker = ValidResults[b].ticker
            /\ summary.best_performer.profit = ValidResults[b].total_profit
            /\ summary.worst_performer.ticker = ValidResults[w].ticker
            /\ summary.worst_performer.profit = ValidResults[w].total_profit

\* two tickers share the largest total_profit, two others the smallest
C13_Witness ==
    /\ pc = "summarized"
    /\ Len(ValidResults) = 3
    /\ ValidResults[1].ticker = "EEE"
    /\ ValidResults[2].ticker = "BBB"
    /\ ValidResults[1].total_profit = ValidResults[2].total_profit
    /\ ValidResults[3].total_profit < ValidResults[1].total_profit
    /\ summary.best_performer.ticker = "EEE"

C13_WitnessWorst ==
    /\ pc = "summarized"
    /\ Len(ValidResults) = 3
    /\ ValidResults[1].ticker = "BBB"
    /\ ValidResults[2].ticker = "DDD"
    /\ ValidResults[3].ticker = "AAA"
    /\ ValidResults[2].total_profit = ValidResults[3].total_profit
    /\ summary.worst_performer.ticker = "DDD"

-----------------------------------------------------------------------------
(* C14: with the SMA defined on both bars, generate_current_signal tests   *)
(* in this order: STRONG BUY if prev.close <= prev.sma and close > sma;    *)
(* else BUY if close > sma; else SELL if prev.close >= prev.sma and        *)
(* close < sma; else HOLD.  A close equal to the SMA always gives HOLD.    *)

SignalReturned == pc = "signal_done" /\ ~IsError(signal)

BothSmaDefined ==
    /\ Len(df) >= 2
    /\ df[Len(df)].SMA # <<>>
    /\ df[Len(df) - 1].SMA # <<>>

C14_SignalPrecedence ==
    pc = "signal_done" /\ BothSmaDefined =>
        LET cur == df[Len(df)]
            prev == df[Len(df) - 1]
            close == cur.Close
            above == prev.Close <= prev.SMA[1] /\ close > cur.SMA[1]
            below == prev.Close >= prev.SMA[1] /\ close < cur.SMA[1]
        IN  /\ ~IsError(signal)
            /\ signal.signal =
                   IF above THEN "STRONG BUY"
                   ELSE IF close > cur.SMA[1] THEN "BUY"
                   ELSE IF below THEN "SELL"
                   ELSE "HOLD"
            /\ close = cur.SMA[1] => signal.signal = "HOLD"

C14_Witness ==
    /\ SignalReturned
    /\ BothSmaDefined
    /\ df[Len(df) - 1].Close = df[Len(df) - 1].SMA[1]
    /\ df[Len(df)].Close > df[Len(df)].SMA[1]
    /\ signal.signal = "STRONG BUY"

C14_WitnessHoldAtSma ==
    /\ SignalReturned
    /\ BothSmaDefined
    /\ df[Len(df) - 1].Close > df[Len(df) - 1].SMA[1]
    /\ df[Len(df)].Close = df[Len(df)].SMA[1]
    /\ signal.signal = "HOLD"

-----------------------------------------------------------------------------
(* C15: a Signal that generate_current_signal returns carries a position   *)
(* recommendation exactly when its signal is STRONG BUY or BUY; for SELL   *)
(* and HOLD the position is absent.                                        *)

C15_PositionIffBuy ==
    SignalReturned =>
        (signal.position # None <=> signal.signal \in {"STRONG BUY", "BUY"})

C15_Witness ==
    /\ SignalReturned
    /\ signal.signal = "BUY"
    /\ signal.position # None
    /\ signal.position.shares > 0

C15_WitnessSell ==
    /\ SignalReturned
    /\ signal.signal = "SELL"
    /\ signal.position = None

-----------------------------------------------------------------------------
(* C16: for a price > 0 calculate_position_size uses the multiplier 1.00   *)
(* if the strength is > 5, 0.75 if it is > 2 and <= 5, 0.50 if it is > 0   *)
(* and <= 2, and 0.25 otherwise; shares is the floor of                    *)
(* portfolio_value * max_position_pct * multiplier / price,                *)
(* actual_dollars is shares * price (returned rounded to cents) and never  *)
(* exceeds portfolio_value * max_position_pct.                             *)

\* the multiplier of the claim, in percent
TierOf(s) ==
    IF s = <<>> THEN 25
    ELSE IF s[1] > 5 * s[2] THEN 100
    ELSE IF s[1] > 2 * s[2] /\ s[1] <= 5 * s[2] THEN 75
    ELSE IF s[1] > 0 /\ s[1] <= 2 * s[2] THEN 50
    ELSE 25

\* portfolio_value * max_position_pct, in units
MaxPositionDollars == (PORTFOLIO_SIZE * 10000 * MAX_POSITION_PCT) \div 100

C16_PositionSize ==
    pc = "size_done" /\ size_price > 0 =>
        /\ ~IsError(position)
        /\ position.shares >= 0
        /\ position.shares * size_price * 100
               <= MaxPositionDollars * TierOf(size_strength)
        /\ (position.shares + 1) * size_price * 100
               > MaxPositionDollars * TierOf(size_strength)
        /\ position.dollars = Round2(position.shares * size_price)
        /\ position.shares * size_price <= MaxPositionDollars

C16_Witness ==
    /\ pc = "size_done"
    /\ size_price = 330000
    /\ size_strength = <<5, 1>>
    /\ position.shares = 22
    /\ position.dollars = 72600

-----------------------------------------------------------------------------
(* C17: calculate_position_size with a price <= 0 fails with InvalidPrice  *)
(* and returns no recommendation: it never divides by a non-positive price *)
(* and never returns a negative or undefined share count.                  *)

C17_InvalidPriceRejected ==
    pc = "size_done" /\ size_price <= 0 =>
        position = [error |-> "InvalidPrice"]

\* the two outcomes the code has instead
C17_NegativeShares ==
    /\ pc = "size_done"
    /\ size_price < 0
    /\ ~IsError(position)
    /\ position.shares < 0

C17_DivisionByZero ==
    /\ pc = "size_done"
    /\ size_price = 0
    /\ position = [error |-> "ArithmeticError"]

-----------------------------------------------------------------------------
(* C18: generate_current_signal fails with InsufficientHistory and returns *)
(* no Signal whenever the SMA of the current or of the previous bar is     *)
(* undefined; it never returns HOLD or any other Signal computed from an   *)
(* undefined SMA.                                                          *)

SomeSmaUndefined ==
    /\ Len(df) >= 2
    /\ (df[Len(df)].SMA = <<>> \/ df[Len(df) - 1].SMA = <<>>)

C18_InsufficientHistory ==
    pc = "signal_done" /\ SomeSmaUndefined =>
        signal = [error |-> "InsufficientHistory"]

\* what the code returns instead: a HOLD computed from NaN
C18_HoldFromUndefinedSma ==
    /\ SignalReturned
    /\ Len(df) >= 2
    /\ df[Len(df)].SMA = <<>>
    /\ signal.signal = "HOLD"
    /\ signal.sma = <<>>
    /\ signal.distance_pct = <<>>

-----------------------------------------------------------------------------
(* C19: for a period >= 1, calculate_sma gives at every bar i >= period-1  *)
(* the arithmetic mean of the closes of the bars i-period+1 .. i and an    *)
(* undefined value at every bar i < period-1 (at all bars when the series  *)
(* is shorter than the period); changing the close of a bar outside that   *)
(* window leaves SMA[i] unchanged.  Bars are counted from 1 here, so bar i *)
(* of the claim is row k = i + 1.                                          *)

RECURSIVE SumOver(_, _, _)
SumOver(cl, from, to) ==
    IF from > to THEN 0 ELSE cl[from] + SumOver(cl, from + 1, to)

C19_TrailingMean ==
    pc = "start" =>
        /\ Len(sma_column) = Len(closes)
        /\ \A k \in 1..Len(closes) :
              /\ k < period => sma_column[k] = <<>>
              /\ k >= period =>
                    /\ sma_column[k] = <<SumOver(closes, k - period + 1, k), period>>
                    /\ \A j \in (1..Len(closes)) \ ((k - period + 1)..k) :
                          \A v \in CloseVals :
                              CalculateSMA([closes EXCEPT ![j] = v], period)[k]
                                  = sma_column[k]

C19_Witness ==
    /\ pc = "start"
    /\ period = 2
    /\ closes = <<90000, 100000, 110000, 100000>>
    /\ sma_column = <<<<>>, <<190000, 2>>, <<210000, 2>>, <<210000, 2>>>>

\* a series shorter than the period: undefined at every bar
C19_WitnessShort ==
    /\ pc = "start"
    /\ period = 3
    /\ Len(closes) = 2
    /\ sma_column = <<<<>>, <<>>>>

-----------------------------------------------------------------------------
(* C20: on the 12 bars with closes 10 10 10 10 10 10 9 11 12 13 9 9 (lows  *)
(* equal to the closes), SMA period 3 and the stop-loss enabled at 5 %,    *)
(* the backtest returns a ledger whose first trade enters at the close =   *)
(* 11 bar at 11, exits on the following close = 9 bar at 10.45 with reason *)
(* STOP-LOSS and has profit -0.55.                                         *)

ScenarioRun == closes = ScenarioCloses /\ period = 3 /\ use_stop_loss

C20_ScenarioTrade ==
    pc = "done" /\ ScenarioRun =>
        /\ result # None
        /\ result.trades # <<>>
        /\ result.trades[1].entry_price = 1100
        /\ result.trades[1].exit_price = 1045
        /\ result.trades[1].exit_reason = "stop_loss"
        /\ result.trades[1].profit = -55

\* what the code returns instead: no result
C20_NoResult ==
    /\ pc = "done"
    /\ ScenarioRun
    /\ sma_column[7] = <<290000, 3>>
    /\ sma_column[8] = <<300000, 3>>
    /\ result = None

-----------------------------------------------------------------------------
(* C21: given a bar sequence whose timestamps are not strictly ascending   *)
(* (or a bar without a required field), backtest_strategy fails with       *)
(* MalformedSeries and returns no result; it never returns a trade ledger  *)
(* computed from such a sequence.                                          *)

C21_NoLedgerFromMalformed ==
    pc = "done" /\ df_kind = "descending" =>
        result = None \/ result = [error |-> "MalformedSeries"]

\* what the code returns instead: a ledger whose trade ends before it began
C21_LedgerFromDescending ==
    /\ pc = "done"
    /\ df_kind = "descending"
    /\ result # None
    /\ result.total_trades > 0
    /\ result.trades[1].exit_date < result.trades[1].entry_date

-----------------------------------------------------------------------------
(* C22: in main's batch loop a failure while analysing one asset (fetch    *)
(* failure, too short a history, or an error raised in the signal, the     *)
(* position sizing or the backtest) affects that asset only: every later   *)
(* ticker is still analysed and the summary and the report are still       *)
(* produced.                                                               *)

MainEnded == pc \in {"reported", "aborted"}

C22_FailureIsolated ==
    MainEnded =>
        /\ Len(backtest_results) = tickers
        /\ Len(signals) = tickers
        /\ summary # None
        /\ ~IsError(report)

\* what the code does instead: the exception of the second asset ends the
\* batch before the third is analysed
C22_BatchAborted ==
    /\ pc = "aborted"
    /\ tickers = 3
    /\ Len(backtest_results) = 1
    /\ summary = None
    /\ report = None

\* a fetch failure or a short history, however, is isolated
C22_SkippedAssetIsolated ==
    /\ pc = "reported"
    /\ tickers = 3
    /\ backtest_results[1] = None
    /\ backtest_results[2] # None
    /\ backtest_results[3] = None

-----------------------------------------------------------------------------
(* C23: for every subset of assets that succeeded, the empty one (all      *)
(* results null) and those without any trade included, generate_report on  *)
(* the output of calculate_portfolio_summary returns a report without      *)
(* raising an error.                                                       *)

C23_ReportCompletes ==
    summary # None /\ pc # "summarized" /\ pc # "collected" => ~IsError(report)

\* what the code does instead
C23_ReportFailsOnNoAsset ==
    /\ pc = "aborted"
    /\ summary # None
    /\ summary.total_stocks_analyzed = 0
    /\ report = [error |-> "ZeroDivisionError"]

C23_ReportFailsOnNoTrade ==
    /\ pc = "aborted"
    /\ summary # None
    /\ summary.total_stocks_analyzed > 0
    /\ summary.total_trades = 0
    /\ report = [error |-> "ZeroDivisionError"]

-----------------------------------------------------------------------------
(* C24: backtest_strategy classifies and sums on the full-precision        *)
(* profit = exit_price - entry_price: a trade counts as winning exactly    *)
(* when exit_price > entry_price; rounding to two decimals never changes   *)
(* a win/loss count.                                                       *)

\* a step that appends a trade to the ledger
TradeAppended == Len(trades') = Len(trades) + 1

\* lines 144-145 applied to the appended ledger entry: is it a winner
CountsAsWinning(t) == Statistics("SIM", <<t>>, 0, 0).winning_trades = 1

C24_ClassifiedStep ==
    TradeAppended =>
        (CountsAsWinning(Last(trades')) <=> exit_price' > entry_price')

C24_FullPrecisionClassification == [][C24_ClassifiedStep]_vars

\* what the code does instead: a trade that gained 0.004 is stored with
\* profit 0.0 and counted as a losing trade
C24_GainCountedAsLoss ==
    /\ pc = "closed"
    /\ trades # <<>>
    /\ exit_price > entry_price
    /\ Last(trades).profit = 0
    /\ Statistics("SIM", trades, stop_loss_exits, signal_exits).losing_trades
           = Len(trades)

-----------------------------------------------------------------------------
(* C25: with the stop-loss enabled and every bar's low at or below its     *)
(* close, every trade of every ledger has profit_pct >= -100 *             *)
(* stop_loss_pct (-5.00 %), and the summary's worst_trade_pct, the         *)
(* minimum profit_pct over all trades and 0 when there is none, is never   *)
(* below that bound.                                                       *)

\* -100 * stop_loss_pct in hundredths of a percent
StopLossFloor == -(100 * STOP_LOSS_PCT)

C25_StopLossFloor ==
    use_stop_loss =>
        /\ \A ts \in Ledgers :
               \A k \in 1..Len(ts) : ts[k].profit_pct >= StopLossFloor
        /\ pc = "summarized" =>
               LET all_trades == AllTrades(ValidResults)
               IN  /\ summary.worst_trade_pct >= StopLossFloor
                   /\ all_trades = <<>> => summary.worst_trade_pct = 0
                   /\ all_trades # <<>> =>
                          /\ \E k \in 1..Len(all_trades) :
                                 all_trades[k].profit_pct = summary.worst_trade_pct
                          /\ \A k \in 1..Len(all_trades) :
                                 all_trades[k].profit_pct >= summary.worst_trade_pct

\* a run whose stop-loss fired on a bar closing below the stop, summarized
\* alone: the worst trade sits exactly on the floor
C25_Witness ==
    /\ pc = "summarized"
    /\ use_stop_loss
    /\ Len(backtest_results) = 1
    /\ result # None
    /\ \E k \in 1..Len(result.trades) :
          /\ result.trades[k].exit_reason = "stop_loss"
          /\ result.trades[k].profit_pct = StopLossFloor
    /\ summary.worst_trade_pct = StopLossFloor

-----------------------------------------------------------------------------
(* C26: with the stop-loss disabled no trade exits by stop-loss, whatever  *)
(* the bars are (lows of zero or far below the entry included): every      *)
(* trade exits by SIGNAL or END_OF_DATA at the close of its exit bar, and  *)
(* stop_loss_exits is 0.                                                   *)

NoStopLossTrade(ts) ==
    \A k \in 1..Len(ts) : ts[k].exit_reason \in {"signal", "END-OF-DATA"}

C26_NoStopLossExits ==
    ~use_stop_loss =>
        /\ stop_loss_exits = 0
        /\ NoStopLossTrade(trades)
        /\ (result # None /\ ~IsError(result)) =>
               /\ result.stop_loss_exits = 0
               /\ NoStopLossTrade(result.trades)

C26_ExitAtCloseStep ==
    (~use_stop_loss /\ TradeAppended) =>
        /\ exit_price' = last_row'.Close
        /\ Last(trades').exit_price = Round2(last_row'.Close)
        /\ Last(trades').exit_date = last_row'.Datetime

C26_StopLossDisabled == []C26_NoStopLossExits /\ [][C26_ExitAtCloseStep]_vars

\* a position entered earlier was carried through a last bar whose low is 0
\* and closed at that bar's close
C26_Witness ==
    /\ pc = "closed"
    /\ ~use_stop_loss
    /\ trades # <<>>
    /\ last_row.Low <= 0
    /\ Last(trades).exit_reason = "END-OF-DATA"
    /\ Last(trades).entry_date # last_row.Datetime
    /\ Last(trades).exit_price = Round2(last_row.Close)

-----------------------------------------------------------------------------
(* C27: stop_loss_exits is the number of trades closed by the stop-loss,   *)
(* signal_exits the number closed by a downward crossover, and together    *)
(* with the END_OF_DATA trades, of which there is at most one, they add up *)
(* to total_trades, the length of the ledger.                              *)

ExitsOf(ts, reason) == CountIf(ts, LAMBDA t : t.exit_reason = reason)

ExitsAccounted(ts, sl_exits, sig_exits) ==
    /\ sl_exits = ExitsOf(ts, "stop_loss")
    /\ sig_exits = ExitsOf(ts, "signal")
    /\ ExitsOf(ts, "END-OF-DATA") \in {0, 1}
    /\ sl_exits + sig_exits + ExitsOf(ts, "END-OF-DATA") = Len(ts)

C27_ExitCounters ==
    /\ ExitsAccounted(trades, stop_loss_exits, signal_exits)
    /\ \A r \in Returned :
          /\ ExitsAccounted(r.trades, r.stop_loss_exits, r.signal_exits)
          /\ r.total_trades = Len(r.trades)

\* a returned run with one loop exit and the closing END-OF-DATA trade
C27_Witness ==
    /\ pc = "done"
    /\ result # None
    /\ result.total_trades = 2
    /\ result.stop_loss_exits = 1
    /\ result.signal_exits = 0
    /\ result.trades[1].exit_reason = "stop_loss"
    /\ result.trades[2].exit_reason = "END-OF-DATA"

\* a returned run whose two trades were both closed by a crossover
C27_TwoSignalExits ==
    /\ pc = "done"
    /\ result # None
    /\ result.total_trades = 2
    /\ result.signal_exits = 2

-----------------------------------------------------------------------------
(* C28: backtester.py (entry tested first, if / elif) and the original     *)
(* monolithic backtest_strategy of merp.py (exit tested first, with        *)
(* `continue`) agree on every frame under the same SMA_PERIOD and          *)
(* stop-loss settings: both reject the same frames, and their ledgers have *)
(* the same number of trades with, trade by trade, the same entry bar,     *)
(* exit bar, entry price, exit price and kind of exit. The prices agree in *)
(* full precision when the trade is made; backtester.py's ledger then      *)
(* holds them rounded to cents.                                            *)

\* the kind of exit of a merp.py trade in backtester.py's words
ExitKind(reason) ==
    CASE reason = "STOP-LOSS" -> "stop_loss"
      [] reason = "SMA-CROSS" -> "signal"
      [] OTHER -> reason

SameTrade(t, m) ==
    /\ t.entry_date = m.entry_date
    /\ t.exit_date = m.exit_date
    /\ t.entry_price = Round2(m.entry_price)
    /\ t.exit_price = Round2(m.exit_price)
    /\ t.profit = Round2(m.profit_loss)
    /\ t.exit_reason = ExitKind(m.exit_reason)

C28_SameLedger ==
    /\ pc = "start" => (n < MIN_ROWS <=> MerpRejects(n))
    /\ pc \in {"loop", "closed"} =>
          /\ Len(merp_trades) = Len(trades)
          /\ \A k \in 1..Len(trades) : SameTrade(trades[k], merp_trades[k])
          /\ merp_stop_loss_exits = stop_loss_exits
          /\ merp_signal_exits = signal_exits
          /\ in_position <=> merp_position # None
          /\ in_position =>
                 /\ merp_position.entry_price = entry_price
                 /\ merp_position.entry_date = entry_date

C28_SameTradeStep ==
    (TradeAppended \/ Len(merp_trades') = Len(merp_trades) + 1) =>
        /\ TradeAppended
        /\ Len(merp_trades') = Len(merp_trades) + 1
        /\ Last(merp_trades').entry_price = entry_price'
        /\ Last(merp_trades').exit_price = exit_price'
        /\ Last(merp_trades').profit_loss = profit'

-----------------------------------------------------------------------------
(* C29: calculate_portfolio_summary gives the 'infinite' profit_factor     *)
(* only when the summed gross_profit is > 0; for a non-empty set of        *)
(* results whose summed gross_profit and gross_loss are both 0 the         *)
(* profit_factor is 0, as for empty input.                                 *)

C29_InfiniteOnlyWithProfit ==
    pc = "summarized" =>
        /\ summary.profit_factor.inf => summary.gross_profit > 0
        /\ (ValidResults # <<>> /\ summary.gross_profit = 0
               /\ summary.gross_loss = 0) =>
              summary.profit_factor = [inf |-> FALSE, x100 |-> 0]

\* what the code does instead: assets that never traded give the infinite
\* profit factor
C29_InfiniteWithoutProfit ==
    /\ pc = "summarized"
    /\ ValidResults # <<>>
    /\ summary.total_trades = 0
    /\ summary.gross_profit = 0
    /\ summary.gross_loss = 0
    /\ summary.profit_factor.inf

-----------------------------------------------------------------------------
(* C30: for a positive current SMA generate_current_signal sizes a         *)
(* position only with a distance from the SMA that is > 0, so the 0.25     *)
(* tier of calculate_position_size is never used on this path: every       *)
(* recommended position is sized with the multiplier 0.50, 0.75 or 1.00;   *)
(* and crossed_above and crossed_below are never both true on one Signal.  *)

PositiveCurrentSma ==
    /\ Len(df) >= 2
    /\ df[Len(df)].SMA # <<>>
    /\ df[Len(df)].SMA[1] > 0

\* shares is int(max_position_dollars * tier / 100 / price)
SizedWithTier(pos, p, tier) ==
    /\ pos.shares * p * 100 <= MaxPositionDollars * tier
    /\ (pos.shares + 1) * p * 100 > MaxPositionDollars * tier

C30_NoQuarterTier ==
    (SignalReturned /\ PositiveCurrentSma) =>
        LET cur == df[Len(df)]
            dist == <<(cur.Close - cur.SMA[1]) * 100, cur.SMA[1]>>
        IN  /\ ~(signal.crossed_above /\ signal.crossed_below)
            /\ signal.position # None =>
                   /\ dist[1] > 0
                   /\ signal.distance_pct[1] >= 0
                   /\ TierOf(dist) \in {50, 75, 100}
                   /\ SizedWithTier(signal.position, cur.Close, TierOf(dist))
                   /\ ~SizedWithTier(signal.position, cur.Close, 25)

\* the smallest distance: the close is just above the SMA, the Signal's
\* distance_pct rounds to 0.0 and the position is sized with 0.50
C30_Witness ==
    /\ SignalReturned
    /\ PositiveCurrentSma
    /\ signal.position # None
    /\ signal.signal = "BUY"
    /\ signal.distance_pct = <<0>>
    /\ df[Len(df)].Close > df[Len(df)].SMA[1]
    /\ SizedWithTier(signal.position, df[Len(df)].Close, 50)

\* a crossover far above the SMA, sized with 1.00
C30_UpperTiers ==
    /\ SignalReturned
    /\ PositiveCurrentSma
    /\ signal.position # None
    /\ signal.signal = "STRONG BUY"
    /\ SizedWithTier(signal.position, df[Len(df)].Close, 100)
====
